---- MODULE Spec2Model ----
(***************************************************************************)
(* Model of the PDF question-answering proof of concept:                   *)
(*   pdf_utils.py        extract_text_from_pdf, chunk_text, process_pdf    *)
(*   embedding_utils.py  get_embedding_model, calculate_cosine_similarity, *)
(*                       search_similar_chunks, add_embeddings_to_chunks   *)
(*   app.py              create_index, clear_index (session state)         *)
(*                                                                         *)
(* Indices are Python's (0-based, end-exclusive); a Python string is a     *)
(* TLA+ sequence of characters, so text[p] in Python is text[p + 1] here.  *)
(***************************************************************************)
EXTENDS Integers, Sequences, FiniteSets, TLC

(***************************************************************************)
(* Bounds of the model.                                                    *)
(***************************************************************************)
\* Longest text over the full alphabet (every delimiter and a plain character).
MaxLen == 4
\* Longest text over the reduced alphabet (plain character and space).
MaxLongLen == 6
\* Largest max_chars and overlap arguments of chunk_text.
MaxChars == 3
MaxOverlap == 2
\* Pages of a PDF and characters of a page.
MaxPages == 2
MaxPageLen == 3
\* Chunks of the collection searched and largest top_k.
MaxStoreChunks == 4
MaxTopK == 2
\* Files of one upload and calls of create_index in a session.
MaxFiles == 2
MaxBuilds == 2
\* Threads that call get_embedding_model and calls of each.
NumThreads == 2
MaxCalls == 2

(***************************************************************************)
(* Characters.                                                             *)
(***************************************************************************)
FullStop == "period"     \* the full-width period
Newline == "nl"
Comma == "comma"         \* the full-width comma
Space == "sp"
Plain == "x"             \* any character that is no delimiter

\* pdf_utils.py:79, in priority order.
Delimiters == <<FullStop, Newline, Comma, Space>>

\* The characters str.strip() removes, among those of the alphabet.
Whitespace == {Newline, Space}

Alphabet == {FullStop, Newline, Comma, Space, Plain}
LongAlphabet == {Plain, Space}

SeqsUpTo(S, n) == UNION {[1..k -> S] : k \in 0..n}

Texts == SeqsUpTo(Alphabet, MaxLen) \cup SeqsUpTo(LongAlphabet, MaxLongLen)
MaxCharsSet == (-1)..MaxChars
OverlapSet == 0..MaxOverlap

(***************************************************************************)
(* Python's sequence primitives.                                           *)
(***************************************************************************)
\* A slice bound i of a sequence of length n, as Python clamps it.
PyIndex(i, n) ==
    IF i < 0 THEN (IF i + n < 0 THEN 0 ELSE i + n)
    ELSE IF i > n THEN n ELSE i

\* t[a:b]
PySlice(t, a, b) == SubSeq(t, PyIndex(a, Len(t)) + 1, PyIndex(b, Len(t)))

\* The scan of str.rfind: from position p down to lo, the first p with t[p] = c.
RECURSIVE ScanBack(_, _, _, _)
ScanBack(t, c, lo, p) ==
    IF p < lo THEN -1
    ELSE IF t[p + 1] = c THEN p
    ELSE ScanBack(t, c, lo, p - 1)

\* A faulty variant of rfind: str.find, the first occurrence in t[a:b].
RECURSIVE ScanForward(_, _, _, _)
ScanForward(t, c, p, hi) ==
    IF p >= hi THEN -1
    ELSE IF t[p + 1] = c THEN p
    ELSE ScanForward(t, c, p + 1, hi)

find(t, c, a, b) == ScanForward(t, c, PyIndex(a, Len(t)), PyIndex(b, Len(t)))

\* t.rfind(c, a, b) for a one-character c: the last p in [a, b) with t[p] = c, or -1.
rfind(t, c, a, b) == ScanBack(t, c, PyIndex(a, Len(t)), PyIndex(b, Len(t)) - 1)

\* t.strip()
RECURSIVE lstrip(_)
lstrip(t) == IF t # <<>> /\ Head(t) \in Whitespace THEN lstrip(Tail(t)) ELSE t
RECURSIVE rstrip(_)
rstrip(t) ==
    IF t # <<>> /\ t[Len(t)] \in Whitespace THEN rstrip(SubSeq(t, 1, Len(t) - 1)) ELSE t
strip(t) == rstrip(lstrip(t))

(***************************************************************************)
(* State.                                                                  *)
(***************************************************************************)
VARIABLES
    \* chunk_text (pdf_utils.py:44-90)
    text,        \* argument text
    max_chars,   \* argument max_chars
    overlap,     \* argument overlap
    start,       \* local start
    chunks,      \* local chunks, the list returned
    slices,      \* slices[i] = <<s, e>>: chunks[i] was taken as text[s:e]
    pc,          \* "idle", "call", "loop", "done"
    \* extract_text_from_pdf and process_pdf (pdf_utils.py:12-41, 93-140)
    pdf,         \* the file: whether pdfplumber opens it, and each page's extract_text()
    pages_data,  \* local pages_data
    page_idx,    \* position of the loop over pages_data
    all_chunks,  \* local all_chunks, the list returned
    ppc,         \* "idle", "extract", "pages", "chunking", "returned", "raised"
    \* search_similar_chunks (embedding_utils.py:108-156)
    query_embedding,  \* local query_embedding
    search_chunks,    \* argument chunks
    top_k,            \* argument top_k
    threshold,        \* argument threshold, in hundredths
    results,          \* local results
    scan,             \* position of the loop over chunks
    found,            \* the list returned
    spc,              \* "idle", "call", "scan", "sort", "done"
    \* create_index and clear_index (app.py:91-174)
    session,          \* st.session_state: chunks, index_created, uploaded_file_names
    uploaded_files,   \* argument uploaded_files
    build_chunks,     \* local all_chunks of create_index
    file_names,       \* local file_names
    file_idx,         \* position of the loop over uploaded_files
    embeddings,       \* local embeddings of add_embeddings_to_chunks
    zip_idx,          \* position of the loop over zip(chunks, embeddings)
    ipc,              \* "idle", "files", "embed", "attach"
    outcome,          \* how the last call ended
    before,           \* st.session_state when the last call began
    builds,           \* calls of create_index so far
    \* get_embedding_model (embedding_utils.py:24-44)
    model_cache,      \* global _model_cache: NoModel or the instance's number
    tpc,              \* per thread: "idle", "test", "load", "store", "return"
    loaded,           \* per thread: the instance its constructor call returned
    got,              \* per thread: what its last call returned
    constructed,      \* calls of the constructor so far
    calls             \* per thread: calls of get_embedding_model so far

chunkVars == <<text, max_chars, overlap, start, chunks, slices, pc>>
pdfVars == <<pdf, pages_data, page_idx, all_chunks, ppc>>
searchVars == <<query_embedding, search_chunks, top_k, threshold, results, scan, found, spc>>
indexVars == <<session, uploaded_files, build_chunks, file_names, file_idx,
               embeddings, zip_idx, ipc, outcome, before, builds>>
modelVars == <<model_cache, tpc, loaded, got, constructed, calls>>
vars == <<chunkVars, pdfVars, searchVars, indexVars, modelVars>>

\* Python's None, where a page text, a vector or a model is expected.
NoText == <<"None">>
NoVector == <<>>
NoModel == 0

(***************************************************************************)
(* chunk_text (pdf_utils.py:44-90).                                        *)
(***************************************************************************)
\* Faulty variants of WindowEnd and NextStart.
WindowEndOffByOne(s, m) == s + m + 1
NextStartNoGuard(s, split_pos, ov) == split_pos - ov
NextStartWeakGuard(s, split_pos, ov) ==
    IF split_pos - ov >= s THEN split_pos - ov ELSE split_pos

\* pdf_utils.py:69
WindowEnd(s, m) == s + m

\* pdf_utils.py:78-83: the delimiters from the k-th on, in priority order.
RECURSIVE SplitFrom(_, _, _, _)
SplitFrom(t, s, end, k) ==
    IF k > Len(Delimiters) THEN end
    ELSE LET pos == rfind(t, Delimiters[k], s, end)
         IN  IF pos > s THEN pos + 1 ELSE SplitFrom(t, s, end, k + 1)

SplitPos(t, s, end) == SplitFrom(t, s, end, 1)

\* pdf_utils.py:88
NextStart(s, split_pos, ov) ==
    IF split_pos - ov > s THEN split_pos - ov ELSE split_pos

\* pdf_utils.py:61-65: the short text is returned whole, else the loop is entered.
Call ==
    /\ pc = "call"
    /\ IF Len(text) <= max_chars
       THEN /\ chunks' = <<text>>
            /\ slices' = <<<<0, Len(text)>>>>
            /\ pc' = "done"
            /\ UNCHANGED start
       ELSE /\ chunks' = <<>>
            /\ slices' = <<>>
            /\ start' = 0
            /\ pc' = "loop"
    /\ UNCHANGED <<text, max_chars, overlap>>
    /\ UNCHANGED <<pdfVars, searchVars, indexVars, modelVars>>

\* pdf_utils.py:67-90: one pass of the while loop, its test included.  With
\* max_chars <= 0 the loop need not end; the model follows it until it has
\* emitted more chunks than the text has characters.
Iterate ==
    /\ pc = "loop"
    /\ Len(chunks) <= Len(text)
    /\ IF ~(start < Len(text))
       THEN /\ pc' = "done"
            /\ UNCHANGED <<start, chunks, slices>>
       ELSE LET end == WindowEnd(start, max_chars)
            IN  IF end >= Len(text)
                THEN /\ chunks' = Append(chunks, PySlice(text, start, Len(text)))
                     /\ slices' = Append(slices, <<start, Len(text)>>)
                     /\ pc' = "done"
                     /\ UNCHANGED start
                ELSE LET split_pos == SplitPos(text, start, end)
                     IN  /\ chunks' = Append(chunks, PySlice(text, start, split_pos))
                         /\ slices' = Append(slices, <<start, split_pos>>)
                         /\ start' = NextStart(start, split_pos, overlap)
                         /\ pc' = "loop"
    /\ UNCHANGED <<text, max_chars, overlap>>
    /\ UNCHANGED <<pdfVars, searchVars, indexVars, modelVars>>

(***************************************************************************)
(* extract_text_from_pdf and process_pdf (pdf_utils.py:12-41, 93-140).     *)
(***************************************************************************)
\* pdf_utils.py:28-37: the pages from the k-th on that hold text, stripped.
RECURSIVE ExtractFrom(_, _)
ExtractFrom(doc, k) ==
    IF k > Len(doc) THEN <<>>
    ELSE IF doc[k] # NoText /\ doc[k] # <<>> /\ strip(doc[k]) # <<>>
         THEN <<[page_number |-> k, text |-> strip(doc[k])]>> \o ExtractFrom(doc, k + 1)
         ELSE ExtractFrom(doc, k + 1)

\* pdf_utils.py:132-137: the records of one page's chunks, from the k-th on.
RECURSIVE ChunkInfos(_, _, _)
ChunkInfos(page_number, text_chunks, k) ==
    IF k > Len(text_chunks) THEN <<>>
    ELSE <<[page_number |-> page_number,
            text |-> text_chunks[k],
            embedding |-> NoVector]>> \o ChunkInfos(page_number, text_chunks, k + 1)

\* pdf_utils.py:115-120, with extract_text_from_pdf (12-41).
ExtractTextFromPdf ==
    /\ ppc = "extract"
    /\ IF ~pdf.readable
       THEN /\ ppc' = "raised"
            /\ UNCHANGED <<pages_data, page_idx, all_chunks>>
       ELSE /\ pages_data' = ExtractFrom(pdf.pages, 1)
            /\ IF pages_data' = <<>>
               THEN ppc' = "raised" /\ UNCHANGED <<page_idx, all_chunks>>
               ELSE ppc' = "pages" /\ page_idx' = 1 /\ all_chunks' = <<>>
    /\ UNCHANGED <<pdf, chunkVars, searchVars, indexVars, modelVars>>

\* pdf_utils.py:123-128: the next page is handed to chunk_text;
\* pdf_utils.py:140: after the last page all_chunks is returned.
ProcessPage ==
    /\ ppc = "pages"
    /\ IF page_idx <= Len(pages_data)
       THEN /\ text' = pages_data[page_idx].text
            /\ pc' = "call"
            /\ ppc' = "chunking"
       ELSE /\ ppc' = "returned"
            /\ UNCHANGED <<text, pc>>
    /\ UNCHANGED <<max_chars, overlap, start, chunks, slices>>
    /\ UNCHANGED <<pdf, pages_data, page_idx, all_chunks>>
    /\ UNCHANGED <<searchVars, indexVars, modelVars>>

\* pdf_utils.py:131-138: one record per chunk of the page.
CollectChunks ==
    /\ ppc = "chunking"
    /\ pc = "done"
    /\ all_chunks' = all_chunks \o ChunkInfos(pages_data[page_idx].page_number, chunks, 1)
    /\ page_idx' = page_idx + 1
    /\ ppc' = "pages"
    /\ pc' = "idle"
    /\ UNCHANGED <<text, max_chars, overlap, start, chunks, slices>>
    /\ UNCHANGED <<pdf, pages_data>>
    /\ UNCHANGED <<searchVars, indexVars, modelVars>>

(***************************************************************************)
(* calculate_cosine_similarity and search_similar_chunks                   *)
(* (embedding_utils.py:80-156).  Vectors have integer coordinates and an   *)
(* integer norm, so every similarity is a whole number of hundredths.      *)
(***************************************************************************)
Vectors == {<<0, 0>>, <<1, 0>>, <<3, 4>>, <<-1, 0>>}
QueryVectors == {<<0, 0>>, <<3, 4>>}
\* Thresholds in hundredths; 30 is the default (embedding_utils.py:112).
Thresholds == {-100, 30, 100}

\* np.dot
Dot(v, w) == v[1] * w[1] + v[2] * w[2]

\* np.linalg.norm
Norm(v) == CHOOSE n \in 0..(Dot(v, v)) : n * n = Dot(v, v)

\* embedding_utils.py:94-105, in hundredths.
calculate_cosine_similarity(vec1, vec2) ==
    LET norm1 == Norm(vec1)
        norm2 == Norm(vec2)
    IN  IF norm1 = 0 \/ norm2 = 0 THEN 0
        ELSE (100 * Dot(vec1, vec2)) \div (norm1 * norm2)

\* A faulty variant of InsertDesc: equal similarities end in reverse scan order.
RECURSIVE InsertDescTiesReversed(_, _)
InsertDescTiesReversed(sorted, r) ==
    IF sorted = <<>> THEN <<r>>
    ELSE IF Head(sorted).similarity > r.similarity
         THEN <<Head(sorted)>> \o InsertDescTiesReversed(Tail(sorted), r)
         ELSE <<r>> \o sorted

\* embedding_utils.py:153: list.sort(reverse=True) is stable; r goes behind
\* every entry whose similarity is at least its own.
RECURSIVE InsertDesc(_, _)
InsertDesc(sorted, r) ==
    IF sorted = <<>> THEN <<r>>
    ELSE IF Head(sorted).similarity >= r.similarity
         THEN <<Head(sorted)>> \o InsertDesc(Tail(sorted), r)
         ELSE <<r>> \o sorted

RECURSIVE SortDescPrefix(_, _)
SortDescPrefix(rs, k) ==
    IF k = 0 THEN <<>> ELSE InsertDesc(SortDescPrefix(rs, k - 1), rs[k])

\* embedding_utils.py:153
SortDesc(rs) == SortDescPrefix(rs, Len(rs))

\* embedding_utils.py:132-135; query_embedding is create_embedding(query).
SearchCall ==
    /\ spc = "call"
    /\ results' = <<>>
    /\ scan' = 1
    /\ spc' = "scan"
    /\ UNCHANGED <<query_embedding, search_chunks, top_k, threshold, found>>
    /\ UNCHANGED <<chunkVars, pdfVars, indexVars, modelVars>>

\* embedding_utils.py:136-150: one pass of the loop over chunks.
ScanChunk ==
    /\ spc = "scan"
    /\ scan <= Len(search_chunks)
    /\ LET chunk == search_chunks[scan]
       IN  IF chunk.embedding = NoVector
           THEN UNCHANGED results
           ELSE LET similarity == calculate_cosine_similarity(query_embedding, chunk.embedding)
                IN  IF similarity >= threshold
                    THEN results' = Append(results,
                                           [pdf_name |-> chunk.pdf_name,
                                            page_number |-> chunk.page_number,
                                            text |-> chunk.text,
                                            similarity |-> similarity])
                    ELSE UNCHANGED results
    /\ scan' = scan + 1
    /\ UNCHANGED <<query_embedding, search_chunks, top_k, threshold, found, spc>>
    /\ UNCHANGED <<chunkVars, pdfVars, indexVars, modelVars>>

\* embedding_utils.py:153-156
SortAndReturn ==
    /\ spc = "scan"
    /\ scan > Len(search_chunks)
    /\ results' = SortDesc(results)
    /\ found' = PySlice(results', 0, top_k)
    /\ spc' = "done"
    /\ UNCHANGED <<query_embedding, search_chunks, top_k, threshold, scan>>
    /\ UNCHANGED <<chunkVars, pdfVars, indexVars, modelVars>>

(***************************************************************************)
(* add_embeddings_to_chunks (embedding_utils.py:159-179), create_index and *)
(* clear_index (app.py:91-174).  An uploaded file is named by its position *)
(* and yields a number of chunks; process_pdf raises for a file that       *)
(* yields none (pdf_utils.py:117-118).                                     *)
(***************************************************************************)
Yields == 0..2
Vec == <<1, 0>>          \* a vector of the embedding model

\* app.py:36-41
EmptySession == [chunks |-> <<>>, index_created |-> FALSE, uploaded_file_names |-> <<>>]

\* What process_pdf returns for a file that yields n chunks.
FileChunks(name, n) ==
    [k \in 1..n |-> [pdf_name |-> name, page_number |-> k, embedding |-> NoVector]]

\* app.py:91-114
CreateIndex ==
    /\ ipc = "idle"
    /\ builds < MaxBuilds
    /\ builds' = builds + 1
    /\ before' = session
    /\ \E n \in 0..MaxFiles : \E ys \in [1..n -> Yields] :
          uploaded_files' = [i \in 1..n |-> [name |-> i, yields |-> ys[i]]]
    /\ IF uploaded_files' = <<>>
       THEN /\ outcome' = "no_files"
            /\ ipc' = "idle"
            /\ UNCHANGED <<build_chunks, file_names, file_idx>>
       ELSE /\ build_chunks' = <<>>
            /\ file_names' = <<>>
            /\ file_idx' = 1
            /\ outcome' = "running"
            /\ ipc' = "files"
    /\ UNCHANGED <<session, embeddings, zip_idx>>
    /\ UNCHANGED <<chunkVars, pdfVars, searchVars, modelVars>>

\* A faulty variant of ProcessFile: the chunks are collected in st.session_state.chunks.
ProcessFileIntoSession ==
    /\ ipc = "files"
    /\ file_idx <= Len(uploaded_files)
    /\ LET pdf_file == uploaded_files[file_idx]
       IN  IF pdf_file.yields = 0
           THEN UNCHANGED <<build_chunks, file_names, session>>
           ELSE /\ build_chunks' = build_chunks \o FileChunks(pdf_file.name, pdf_file.yields)
                /\ session' = [session EXCEPT !.chunks = build_chunks']
                /\ file_names' = Append(file_names, pdf_file.name)
    /\ file_idx' = file_idx + 1
    /\ UNCHANGED <<uploaded_files, embeddings, zip_idx, ipc, outcome, before, builds>>
    /\ UNCHANGED <<chunkVars, pdfVars, searchVars, modelVars>>

\* app.py:117-131: one pass of the loop over uploaded_files.
ProcessFile ==
    /\ ipc = "files"
    /\ file_idx <= Len(uploaded_files)
    /\ LET pdf_file == uploaded_files[file_idx]
       IN  IF pdf_file.yields = 0
           THEN UNCHANGED <<build_chunks, file_names>>
           ELSE /\ build_chunks' = build_chunks \o FileChunks(pdf_file.name, pdf_file.yields)
                /\ file_names' = Append(file_names, pdf_file.name)
    /\ file_idx' = file_idx + 1
    /\ UNCHANGED <<session, uploaded_files, embeddings, zip_idx, ipc, outcome, before, builds>>
    /\ UNCHANGED <<chunkVars, pdfVars, searchVars, modelVars>>

\* app.py:134-141
CheckChunks ==
    /\ ipc = "files"
    /\ file_idx > Len(uploaded_files)
    /\ IF build_chunks = <<>>
       THEN outcome' = "no_chunks" /\ ipc' = "idle"
       ELSE ipc' = "embed" /\ UNCHANGED outcome
    /\ UNCHANGED <<session, uploaded_files, build_chunks, file_names, file_idx,
                   embeddings, zip_idx, before, builds>>
    /\ UNCHANGED <<chunkVars, pdfVars, searchVars, modelVars>>

\* embedding_utils.py:170-173: create_embeddings_batch returns one vector per
\* text or raises; app.py:165-166 catches what it raises.
EmbedBatch ==
    /\ ipc = "embed"
    /\ \/ /\ embeddings' = [k \in 1..Len(build_chunks) |-> Vec]
          /\ zip_idx' = 1
          /\ ipc' = "attach"
          /\ UNCHANGED outcome
       \/ /\ outcome' = "embedding_error"
          /\ ipc' = "idle"
          /\ UNCHANGED <<embeddings, zip_idx>>
    /\ UNCHANGED <<session, uploaded_files, build_chunks, file_names, file_idx, before, builds>>
    /\ UNCHANGED <<chunkVars, pdfVars, searchVars, modelVars>>

\* embedding_utils.py:176-177: one pass of the loop over zip(chunks, embeddings).
AttachEmbedding ==
    /\ ipc = "attach"
    /\ zip_idx <= Len(build_chunks)
    /\ build_chunks' = [build_chunks EXCEPT ![zip_idx].embedding = embeddings[zip_idx]]
    /\ zip_idx' = zip_idx + 1
    /\ UNCHANGED <<session, uploaded_files, file_names, file_idx, embeddings,
                   ipc, outcome, before, builds>>
    /\ UNCHANGED <<chunkVars, pdfVars, searchVars, modelVars>>

\* embedding_utils.py:179 and app.py:146-163
Commit ==
    /\ ipc = "attach"
    /\ zip_idx > Len(build_chunks)
    /\ session' = [chunks |-> build_chunks,
                   index_created |-> TRUE,
                   uploaded_file_names |-> file_names]
    /\ outcome' = "committed"
    /\ ipc' = "idle"
    /\ UNCHANGED <<uploaded_files, build_chunks, file_names, file_idx, embeddings,
                   zip_idx, before, builds>>
    /\ UNCHANGED <<chunkVars, pdfVars, searchVars, modelVars>>

\* app.py:86-88 and 169-174
ClearIndex ==
    /\ ipc = "idle"
    /\ session.index_created
    /\ session' = EmptySession
    /\ outcome' = "cleared"
    /\ UNCHANGED <<uploaded_files, build_chunks, file_names, file_idx, embeddings,
                   zip_idx, ipc, before, builds>>
    /\ UNCHANGED <<chunkVars, pdfVars, searchVars, modelVars>>

(***************************************************************************)
(* get_embedding_model (embedding_utils.py:24-44), called by several       *)
(* threads; each numbered line below is one step of a thread.              *)
(***************************************************************************)
Threads == 1..NumThreads

\* embedding_utils.py:39: the call and its test of the cache.
TestCache(t) ==
    /\ tpc[t] = "idle"
    /\ calls[t] < MaxCalls
    /\ calls' = [calls EXCEPT ![t] = calls[t] + 1]
    /\ tpc' = [tpc EXCEPT ![t] = IF model_cache = NoModel THEN "load" ELSE "return"]
    /\ UNCHANGED <<model_cache, loaded, got, constructed>>
    /\ UNCHANGED <<chunkVars, pdfVars, searchVars, indexVars>>

\* embedding_utils.py:41, right-hand side: the constructor runs.
LoadModel(t) ==
    /\ tpc[t] = "load"
    /\ constructed' = constructed + 1
    /\ loaded' = [loaded EXCEPT ![t] = constructed + 1]
    /\ tpc' = [tpc EXCEPT ![t] = "store"]
    /\ UNCHANGED <<model_cache, got, calls>>
    /\ UNCHANGED <<chunkVars, pdfVars, searchVars, indexVars>>

\* embedding_utils.py:41, the assignment to the global.
StoreCache(t) ==
    /\ tpc[t] = "store"
    /\ model_cache' = loaded[t]
    /\ tpc' = [tpc EXCEPT ![t] = "return"]
    /\ UNCHANGED <<loaded, got, constructed, calls>>
    /\ UNCHANGED <<chunkVars, pdfVars, searchVars, indexVars>>

\* embedding_utils.py:44
ReturnModel(t) ==
    /\ tpc[t] = "return"
    /\ got' = [got EXCEPT ![t] = model_cache]
    /\ tpc' = [tpc EXCEPT ![t] = "idle"]
    /\ UNCHANGED <<model_cache, loaded, constructed, calls>>
    /\ UNCHANGED <<chunkVars, pdfVars, searchVars, indexVars>>

(***************************************************************************)
(* Specifications: one per component, the others at rest.                  *)
(***************************************************************************)
RestChunk ==
    /\ text = <<>> /\ max_chars = 1 /\ overlap = 0
    /\ start = 0 /\ chunks = <<>> /\ slices = <<>> /\ pc = "idle"

RestPdf ==
    /\ pdf = [readable |-> FALSE, pages |-> <<>>] /\ pages_data = <<>> /\ page_idx = 1
    /\ all_chunks = <<>> /\ ppc = "idle"

RestSearch ==
    /\ query_embedding = <<0, 0>> /\ search_chunks = <<>> /\ top_k = 1
    /\ threshold = 0 /\ results = <<>> /\ scan = 1 /\ found = <<>> /\ spc = "idle"

RestIndex ==
    /\ session = EmptySession /\ uploaded_files = <<>> /\ build_chunks = <<>>
    /\ file_names = <<>> /\ file_idx = 1 /\ embeddings = <<>> /\ zip_idx = 1
    /\ ipc = "idle" /\ outcome = "none" /\ before = EmptySession /\ builds = 0

RestModel ==
    /\ model_cache = NoModel
    /\ tpc = [t \in Threads |-> "idle"]
    /\ loaded = [t \in Threads |-> NoModel]
    /\ got = [t \in Threads |-> NoModel]
    /\ constructed = 0
    /\ calls = [t \in Threads |-> 0]

\* A call of chunk_text.
Init ==
    /\ text \in Texts
    /\ max_chars \in MaxCharsSet
    /\ overlap \in OverlapSet
    /\ start = 0 /\ chunks = <<>> /\ slices = <<>>
    /\ pc = "call"
    /\ RestPdf /\ RestSearch /\ RestIndex /\ RestModel

Next == Call \/ Iterate

Spec == Init /\ [][Next]_vars

\* A call of chunk_text with max_chars > 0.  The function is sequential
\* code: a step that can be taken is taken.
InitPositive == Init /\ max_chars > 0

FairSpec == InitPositive /\ [][Next]_vars /\ WF_vars(Next)

\* A call of process_pdf.
PageTexts == SeqsUpTo(LongAlphabet, MaxPageLen) \cup {NoText}
Pdfs ==
    {[readable |-> TRUE, pages |-> ps] : ps \in SeqsUpTo(PageTexts, MaxPages)}
    \cup {[readable |-> FALSE, pages |-> <<>>]}

InitPdf ==
    /\ pdf \in Pdfs
    /\ max_chars \in MaxCharsSet
    /\ overlap \in OverlapSet
    /\ text = <<>> /\ start = 0 /\ chunks = <<>> /\ slices = <<>> /\ pc = "idle"
    /\ pages_data = <<>> /\ page_idx = 1 /\ all_chunks = <<>>
    /\ ppc = "extract"
    /\ RestSearch /\ RestIndex /\ RestModel

NextPdf == ExtractTextFromPdf \/ ProcessPage \/ Call \/ Iterate \/ CollectChunks

SpecPdf == InitPdf /\ [][NextPdf]_vars

\* A call of search_similar_chunks.
ChunkLists ==
    UNION {{[i \in 1..n |-> [pdf_name |-> "doc.pdf",
                            page_number |-> i,
                            text |-> <<Plain>>,
                            embedding |-> e[i]]] :
              e \in [1..n -> Vectors \cup {NoVector}]} : n \in 0..MaxStoreChunks}

InitSearch ==
    /\ query_embedding \in QueryVectors
    /\ search_chunks \in ChunkLists
    /\ top_k \in 1..MaxTopK
    /\ threshold \in Thresholds
    /\ results = <<>> /\ scan = 1 /\ found = <<>>
    /\ spc = "call"
    /\ RestChunk /\ RestPdf /\ RestIndex /\ RestModel

NextSearch == SearchCall \/ ScanChunk \/ SortAndReturn

SpecSearch == InitSearch /\ [][NextSearch]_vars

\* A session of the application: index builds and clears.
InitIndex == RestChunk /\ RestPdf /\ RestSearch /\ RestIndex /\ RestModel

NextIndex ==
    \/ CreateIndex
    \/ ProcessFile
    \/ CheckChunks
    \/ EmbedBatch
    \/ AttachEmbedding
    \/ Commit
    \/ ClearIndex

SpecIndex == InitIndex /\ [][NextIndex]_vars

\* Threads of one process calling get_embedding_model.
InitModel == RestChunk /\ RestPdf /\ RestSearch /\ RestIndex /\ RestModel

NextModel ==
    \E t \in Threads :
        \/ TestCache(t)
        \/ LoadModel(t)
        \/ StoreCache(t)
        \/ ReturnModel(t)

SpecModel == InitModel /\ [][NextModel]_vars

(***************************************************************************)
(* Claims about chunk_text.                                                *)
(***************************************************************************)
ValidArgs == max_chars > overlap /\ overlap >= 0
SliceStart(i) == slices[i][1]
SliceEnd(i) == slices[i][2]
IsDelimiter(c) == \E k \in 1..Len(Delimiters) : Delimiters[k] = c
CeilDiv(a, b) == (a + b - 1) \div b
SetMax(S) == CHOOSE m \in S : \A x \in S : x <= m

\* The chunks up to the k-th, each without the characters it shares with
\* the chunk before it.
RECURSIVE Reassemble(_)
Reassemble(k) ==
    IF k = 0 THEN <<>>
    ELSE IF k = 1 THEN chunks[1]
    ELSE Reassemble(k - 1)
         \o SubSeq(chunks[k], SliceEnd(k - 1) - SliceStart(k) + 1, Len(chunks[k]))

\* C1: for a non-empty text and max_chars > overlap >= 0 the chunks are
\* slices text[s_i:e_i] with s_0 = 0, s_i < s_(i+1) <= e_i and
\* e_i - s_(i+1) <= overlap, the next window starting likewise; the list
\* returned ends with e_last = len(text), and its chunks with the overlaps
\* removed concatenate to text.
C1_Coverage ==
    (text # <<>> /\ ValidArgs) =>
        /\ Len(slices) = Len(chunks)
        /\ \A i \in 1..Len(chunks) :
              /\ 0 <= SliceStart(i) /\ SliceStart(i) < SliceEnd(i)
              /\ SliceEnd(i) <= Len(text)
              /\ chunks[i] = SubSeq(text, SliceStart(i) + 1, SliceEnd(i))
        /\ chunks # <<>> => SliceStart(1) = 0
        /\ \A i \in 1..(Len(chunks) - 1) :
              /\ SliceStart(i) < SliceStart(i + 1)
              /\ SliceStart(i + 1) <= SliceEnd(i)
              /\ SliceEnd(i) - SliceStart(i + 1) <= overlap
        /\ (pc = "loop" /\ chunks # <<>>) =>
              /\ SliceStart(Len(chunks)) < start
              /\ start <= SliceEnd(Len(chunks))
              /\ SliceEnd(Len(chunks)) - start <= overlap
        /\ pc = "done" =>
              /\ Len(chunks) >= 1
              /\ SliceEnd(Len(chunks)) = Len(text)
              /\ Reassemble(Len(chunks)) = text

\* A call that returned three chunks or more, one pair overlapping and one not.
C1_Witness ==
    /\ pc = "done" /\ text # <<>> /\ ValidArgs
    /\ Len(chunks) >= 3
    /\ \E i \in 1..(Len(chunks) - 1) : SliceEnd(i) - SliceStart(i + 1) > 0
    /\ \E i \in 1..(Len(chunks) - 1) : SliceEnd(i) = SliceStart(i + 1)
    /\ overlap > 0

\* C3: for max_chars > overlap >= 0 every chunk has at most max_chars characters.
C3_ChunkLength ==
    ValidArgs => \A i \in 1..Len(chunks) : Len(chunks[i]) <= max_chars

\* A returned list with a chunk cut short at a delimiter, a chunk of exactly
\* max_chars characters and a final remainder.
C3_Witness ==
    /\ pc = "done" /\ ValidArgs /\ Len(text) > max_chars
    /\ \E i \in 1..(Len(chunks) - 1) : Len(chunks[i]) < max_chars
    /\ \E i \in 1..(Len(chunks) - 1) : Len(chunks[i]) = max_chars
    /\ Len(chunks[Len(chunks)]) = max_chars

\* One pass of the loop either emits the remainder and stops, or emits a
\* non-empty chunk and moves start forward.
ProgressStep ==
    (pc = "loop" /\ max_chars > 0 /\ overlap >= 0) =>
        \/ /\ pc' = "done"
           /\ chunks' = Append(chunks, SubSeq(text, start + 1, Len(text)))
        \/ /\ pc' = "loop"
           /\ start' > start
           /\ Len(chunks') = Len(chunks) + 1
           /\ chunks'[Len(chunks')] # <<>>
           /\ SubSeq(chunks', 1, Len(chunks)) = chunks

\* C4: for max_chars > 0 and overlap >= 0 chunk_text terminates, and each pass
\* of its loop either emits the remainder as the final chunk and stops, or
\* emits a non-empty chunk and moves start to a strictly larger position.
C4_ForwardProgress ==
    /\ [][ProgressStep]_vars
    /\ <>(pc = "done")

\* A call with overlap >= max_chars that ran the loop at least three times.
C4_Witness ==
    /\ pc = "done" /\ max_chars > 0 /\ overlap >= max_chars
    /\ Len(text) > max_chars
    /\ Len(chunks) >= 4

\* C7: with max_chars <= overlap or max_chars <= 0 the call fails before any
\* processing: no chunk is emitted and the loop is not entered.
C7_FailFast ==
    (max_chars <= overlap \/ max_chars <= 0) => (chunks = <<>> /\ pc = "call")

\* C8 as claimed: a text longer than max_chars yields at most
\* ceil(len(text) / (max_chars - overlap)) chunks.
C8_CeilBound ==
    (ValidArgs /\ Len(text) > max_chars) =>
        Len(chunks) <= CeilDiv(Len(text), max_chars - overlap)

\* C8 as amended: a text longer than max_chars yields at most
\* len(text) - max_chars + 1 chunks, and at most
\* ceil(len(text) / (max_chars - overlap)) when it holds no delimiter.
C8_LinearBound ==
    (ValidArgs /\ Len(text) > max_chars) =>
        /\ Len(chunks) <= Len(text) - max_chars + 1
        /\ (\A p \in 1..Len(text) : ~IsDelimiter(text[p])) =>
              Len(chunks) <= CeilDiv(Len(text), max_chars - overlap)

\* A call that returned more chunks than the claimed bound allows.
C8_Witness ==
    /\ pc = "done" /\ ValidArgs /\ Len(text) > max_chars
    /\ Len(chunks) > CeilDiv(Len(text), max_chars - overlap)
    /\ Len(chunks) <= Len(text) - max_chars + 1

\* The positions strictly after s and below w that hold the k-th delimiter.
Occurrences(k, s, w) == {p \in (s + 1)..(w - 1) : text[p + 1] = Delimiters[k]}

\* The split point of the window [s, w) as the priority rule gives it.
IsPrioritySplit(e, s, w) ==
    IF \A k \in 1..Len(Delimiters) : Occurrences(k, s, w) = {}
    THEN e = w
    ELSE \E k \in 1..Len(Delimiters) :
            /\ Occurrences(k, s, w) # {}
            /\ \A j \in 1..(k - 1) : Occurrences(j, s, w) = {}
            /\ e = SetMax(Occurrences(k, s, w)) + 1

\* The k-th chunk was cut in the loop and is not the final remainder.
NonFinal(i) == i \in 1..Len(slices) /\ ~(pc = "done" /\ i = Len(slices))

\* C9: in every non-final window the split point is one past the last
\* occurrence, strictly after start and below the window end, of the first
\* delimiter in priority order that occurs there, and the window end when
\* none does.
C9_DelimiterPriority ==
    max_chars > 0 =>
        \A i \in 1..Len(slices) :
            NonFinal(i) =>
                IsPrioritySplit(SliceEnd(i), SliceStart(i), SliceStart(i) + max_chars)

\* A window cut at a newline although a lower-priority delimiter occurs later
\* in it and a full-width period stands at its start.
C9_Witness ==
    /\ max_chars > 0
    /\ \E i \in 1..Len(slices) :
          /\ NonFinal(i)
          /\ text[SliceStart(i) + 1] = FullStop
          /\ text[SliceEnd(i)] = Newline
          /\ \E p \in SliceEnd(i)..(SliceStart(i) + max_chars - 1) :
                IsDelimiter(text[p + 1])

(***************************************************************************)
(* Claims about process_pdf.                                               *)
(***************************************************************************)
\* C6: for max_chars > overlap >= 0 every chunk record process_pdf produces
\* has a text that is neither empty nor made of whitespace only.
C6_NoBlankChunk ==
    ValidArgs => \A k \in 1..Len(all_chunks) : strip(all_chunks[k].text) # <<>>

(***************************************************************************)
(* Claims about search_similar_chunks.                                     *)
(***************************************************************************)
Similarity(i) ==
    calculate_cosine_similarity(query_embedding, search_chunks[i].embedding)

\* The chunks that carry a vector and reach the threshold.
Eligible ==
    {i \in 1..Len(search_chunks) :
        search_chunks[i].embedding # NoVector /\ Similarity(i) >= threshold}

\* The place of chunk i in the reference list: behind every eligible chunk
\* of higher similarity and every earlier one of equal similarity.
Rank(i) ==
    1 + Cardinality({j \in Eligible :
                        \/ Similarity(j) > Similarity(i)
                        \/ Similarity(j) = Similarity(i) /\ j < i})

\* C2: for top_k >= 1 the list returned is the first top_k entries of the
\* eligible chunks ordered by similarity descending, ties in scan order; so
\* it has at most top_k entries, each of similarity >= threshold, in
\* non-increasing order, and no omitted eligible chunk beats a returned one.
C2_TopK ==
    spc = "done" =>
        /\ Len(found) = (IF Cardinality(Eligible) < top_k
                         THEN Cardinality(Eligible) ELSE top_k)
        /\ \A i \in Eligible :
              Rank(i) <= top_k =>
                  found[Rank(i)] = [pdf_name |-> search_chunks[i].pdf_name,
                                    page_number |-> search_chunks[i].page_number,
                                    text |-> search_chunks[i].text,
                                    similarity |-> Similarity(i)]
        /\ Len(found) <= top_k
        /\ \A k \in 1..Len(found) : found[k].similarity >= threshold
        /\ \A k \in 1..(Len(found) - 1) : found[k].similarity >= found[k + 1].similarity
        /\ \A i \in Eligible : \A k \in 1..Len(found) :
              Similarity(i) > found[k].similarity =>
                  \E m \in 1..Len(found) : found[m].page_number = i

\* A search that returned a later chunk of higher similarity first, cut the
\* list between two chunks of equal similarity and passed over a chunk
\* without a vector or below the threshold.
C2_Witness ==
    /\ spc = "done"
    /\ Len(found) = top_k
    /\ top_k >= 2
    /\ found[1].similarity > found[2].similarity
    /\ found[1].page_number > found[2].page_number
    /\ \E i \in Eligible : \E j \in Eligible :
          /\ i < j
          /\ Similarity(i) = Similarity(j)
          /\ Rank(i) = top_k
          /\ Rank(j) = top_k + 1
    /\ \E i \in 1..Len(search_chunks) :
          \/ search_chunks[i].embedding = NoVector
          \/ Similarity(i) < threshold

(***************************************************************************)
(* Claims about create_index.                                              *)
(***************************************************************************)
Embedded(cs) == \A k \in 1..Len(cs) : cs[k].embedding # NoVector

\* A build that is running or has failed has left the session as it was,
\* and the session never holds a chunk without its vector.
BuildKeepsSession ==
    /\ (ipc # "idle" \/ outcome \in {"no_files", "no_chunks", "embedding_error"}) =>
          session = before
    /\ Embedded(session.chunks)

\* The session changes only when a fully vectorized collection is stored
\* or the index is cleared.
SessionStep ==
    session' # session =>
        \/ /\ ipc = "attach"
           /\ Embedded(build_chunks)
           /\ build_chunks # <<>>
           /\ session' = [chunks |-> build_chunks,
                          index_created |-> TRUE,
                          uploaded_file_names |-> file_names]
        \/ /\ ipc = "idle"
           /\ session' = EmptySession

\* C5: a build that aborts, because the embedding step raises or because no
\* document yielded a chunk, leaves chunks, index_created and
\* uploaded_file_names as they were; the collection is replaced only by one
\* that is fully built and vectorized.
C5_AtomicBuild == []BuildKeepsSession /\ [][SessionStep]_vars

\* A rebuild over an existing index whose embedding step raised.
C5_Witness ==
    /\ ipc = "idle"
    /\ outcome = "embedding_error"
    /\ before.index_created
    /\ session = before
    /\ build_chunks # <<>>
    /\ build_chunks # session.chunks

(***************************************************************************)
(* Claims about get_embedding_model.                                       *)
(***************************************************************************)
\* C10: the model is constructed at most once, and every caller receives
\* the cached instance.
C10_SingleInit ==
    /\ constructed <= 1
    /\ \A t \in Threads : got[t] # NoModel => got[t] = model_cache

====
